---- MODULE Spec2Model ----
(***************************************************************************)
(* Model of mcp_server.py: the three tools search_customers,               *)
(* search_wealth_products and analyze_suitability, each behind the         *)
(* require_auth wrapper, reading the tables customer_info,                 *)
(* customer_persona and wealth_products through one connection per call.   *)
(*                                                                         *)
(* Conventions.  Python None and SQL NULL are both the empty tuple <<>>;   *)
(* any other Python/SQL value v is the one-element tuple <<v>>.  Strings   *)
(* that the code slices or matches with LIKE (header values, names,        *)
(* issuers) are sequences of one-character strings; strings that are only  *)
(* compared for equality are TLA+ strings.  The Chinese labels of the      *)
(* source are written with the English glosses of the glossary.            *)
(* suitability_score is kept in hundredths (0.95 -> 95, 0.4 -> 40).        *)
(***************************************************************************)
EXTENDS Integers, Sequences, FiniteSets, TLC

VARIABLES
    customer_info,      \* table customer_info, rows in physical order
    customer_persona,   \* table customer_persona (set of rows, <= 1 per customer)
    wealth_products,    \* table wealth_products, rows in physical order
    pc,                 \* position of the single synchronous request
    tool,               \* the tool the request invoked
    headers,            \* what get_http_headers() yields for the request
    args,               \* keyword arguments of the invoked tool
    sc_args,            \* arguments of the active search_customers frame
    caller,             \* who called the active search_customers frame
    results,            \* analyze_suitability: local `results`
    pending,            \* value or exception travelling through `finally`
    ret,                \* what the request finally returned / raised
    conns,              \* number of open database connections
    opened,             \* connections opened so far by this request
    queried             \* tables queried so far by this request, in order

vars == <<customer_info, customer_persona, wealth_products, pc, tool, headers,
          args, sc_args, caller, results, pending, ret, conns, opened, queried>>

store == <<customer_info, customer_persona, wealth_products>>

-----------------------------------------------------------------------------
(* Bounds of the model *)

MaxCustomers == 11      \* most rows in customer_info
MaxProducts == 3        \* most rows in wealth_products
MaxFunds == 2           \* largest amount (funds, minimum purchase, ceiling)
MaxFilters == 2         \* most non-default filters in one product search

-----------------------------------------------------------------------------
(* Values *)

None == <<>>
NULL == <<>>
Some(v) == <<v>>

Min(a, b) == IF a <= b THEN a ELSE b

\* Python truthiness of an optional int / str / character-sequence value
TruthyInt(x) == x # None /\ x[1] # 0
TruthyStr(x) == x # None /\ x[1] # ""
TruthySeq(x) == x # None /\ x[1] # <<>>

\* Python `a or b`
OrInt(a, b) == IF TruthyInt(a) THEN a ELSE b
OrSeq(a, b) == IF TruthySeq(a) THEN a ELSE b

\* s.startswith(p) and s[n:] on character sequences
startswith(s, p) == Len(s) >= Len(p) /\ SubSeq(s, 1, Len(p)) = p
slice_from(s, n) == SubSeq(s, n + 1, Len(s))

\* SQL `field = ?` and `field LIKE '%' || ? || '%'`; NULL never matches
SqlEq(field, param) == field # NULL /\ param # NULL /\ field[1] = param[1]
Contains(hay, needle) ==
    \E i \in 0 .. (Len(hay) - Len(needle)) :
        SubSeq(hay, i + 1, i + Len(needle)) = needle
SqlLike(field, param) == field # NULL /\ Contains(field[1], param[1])
\* SQL `field <= ?`  (NULL <= x is NULL, so the row is dropped)
SqlLeq(field, param) == field # NULL /\ field[1] <= param[1]

\* SQL `LIMIT n`: a negative n means no upper bound (SQLite)
SqlLimit(rows, n) ==
    IF n < 0 THEN rows ELSE SubSeq(rows, 1, Min(n, Len(rows)))

-----------------------------------------------------------------------------
(* Program constants *)

DefaultLimit == 10          \* LIMIT 10 of search_customers, limit = 10 of search_wealth_products
UnauthorizedCode == 401
DefaultCustomerRank == 0    \* risk_map.get(..., 0)
DefaultProductRank == 99    \* prod_risk_map.get(..., 99)
ScoreSuitable == 95         \* 0.95, in hundredths
ScoreUnsuitable == 40       \* 0.4, in hundredths

\* the configured secret (any non-empty string), and "Bearer "
API_KEY == <<"k", "1">>
BearerPrefix == <<"B", "e", "a", "r", "e", "r", " ">>

risk_map ==
    ("conservative" :> 1) @@ ("stable" :> 2) @@ ("balanced" :> 3) @@
    ("growth" :> 4) @@ ("aggressive" :> 5)
prod_risk_map ==
    ("low" :> 1) @@ ("slightly-low" :> 2) @@ ("medium" :> 3) @@
    ("slightly-high" :> 4) @@ ("high" :> 5)

-----------------------------------------------------------------------------
(* require_auth: the decision of the wrapper *)

\* dict.get on the header mapping (names arrive lower-cased)
HeaderGet(h, name) == IF name \in DOMAIN h.dict THEN h.dict[name] ELSE None

Unauthorized(msg) == [kind |-> "error", error |-> msg, code |-> Some(UnauthorizedCode)]
Pass == [kind |-> "pass"]

AuthCheck(h) ==
    IF ~h.available THEN Pass       \* get_http_headers() raised: except -> pass
    ELSE
      LET api_key == OrSeq(HeaderGet(h, "x-api-key"), HeaderGet(h, "X-API-Key"))
          auth_header == OrSeq(HeaderGet(h, "authorization"), HeaderGet(h, "Authorization"))
      IN  IF TruthySeq(api_key)
          THEN IF api_key[1] # API_KEY THEN Unauthorized("Invalid API Key") ELSE Pass
          ELSE IF TruthySeq(auth_header)
          THEN IF startswith(auth_header[1], BearerPrefix)
               THEN IF slice_from(auth_header[1], 7) # API_KEY
                    THEN Unauthorized("Invalid Bearer Token") ELSE Pass
               ELSE Unauthorized("Invalid Authorization format")
          ELSE Unauthorized("Missing authentication. Provide X-API-Key header.")

-----------------------------------------------------------------------------
(* search_customers: the query it builds and what the engine returns *)

\* SELECT i.*, p.risk_level, ... FROM customer_info i LEFT JOIN customer_persona p
\* (the other persona columns are carried along unread and are left out)
LeftJoin(i, persona) ==
    [customer_id |-> i.customer_id, name |-> i.name, id_card |-> i.id_card,
     id_card_masked |-> i.id_card_masked, available_funds |-> i.available_funds,
     risk_level |-> IF \E p \in persona : p.customer_id = i.customer_id
                    THEN (CHOOSE p \in persona : p.customer_id = i.customer_id).risk_level
                    ELSE NULL]

JoinedRows(info, persona) == [k \in 1 .. Len(info) |-> LeftJoin(info[k], persona)]

CustomerHasWhere(a) ==
    TruthyInt(a.customer_id) \/ TruthySeq(a.name) \/ TruthyStr(a.id_card)

CustomerWhere(a, row) ==
    /\ TruthyInt(a.customer_id) => row.customer_id = a.customer_id[1]
    /\ TruthySeq(a.name) => SqlLike(row.name, a.name)
    /\ TruthyStr(a.id_card) =>
          (SqlEq(row.id_card, a.id_card) \/ SqlEq(row.id_card_masked, a.id_card))

CustomerRows(a, info, persona) ==
    IF CustomerHasWhere(a)
    THEN SelectSeq(JoinedRows(info, persona), LAMBDA row : CustomerWhere(a, row))
    ELSE SqlLimit(JoinedRows(info, persona), DefaultLimit)

-----------------------------------------------------------------------------
(* search_wealth_products: the query it builds and what the engine returns *)

FilterKeys == {"sales_type", "product_type", "product_status",
               "fund_raising", "risk_level", "product_code"}

\* variant: the ceiling tested for truthiness like the other filters, so that
\* a ceiling of 0 is dropped
ProductWhere_truthy_ceiling(a, row) ==
    /\ \A key \in FilterKeys : TruthyStr(a[key]) => SqlEq(row[key], a[key])
    /\ TruthySeq(a.product_name) => SqlLike(row.product_name, a.product_name)
    /\ TruthySeq(a.issuer) => SqlLike(row.issuer, a.issuer)
    /\ TruthyInt(a.max_min_purchase) => SqlLeq(row.min_purchase_amount, a.max_min_purchase)

ProductWhere(a, row) ==
    /\ \A key \in FilterKeys : TruthyStr(a[key]) => SqlEq(row[key], a[key])
    /\ TruthySeq(a.product_name) => SqlLike(row.product_name, a.product_name)
    /\ TruthySeq(a.issuer) => SqlLike(row.issuer, a.issuer)
    /\ a.max_min_purchase # None => SqlLeq(row.min_purchase_amount, a.max_min_purchase)

ProductRows(a, products) ==
    SqlLimit(SelectSeq(products, LAMBDA row : ProductWhere(a, row)), a.limit)

-----------------------------------------------------------------------------
(* analyze_suitability: product lookup and the scoring rule *)

\* SELECT * FROM wealth_products WHERE product_code = ?  ... fetchone()
FetchProduct(code, products) ==
    LET hits == SelectSeq(products, LAMBDA row : SqlEq(row.product_code, code))
    IN  IF hits = <<>> THEN None ELSE Some(hits[1])

\* variant: one shared table for both vocabularies
cust_risk_val_shared_map(customer) ==
    IF customer.risk_level # NULL
          /\ customer.risk_level[1] \in DOMAIN (risk_map @@ prod_risk_map)
    THEN (risk_map @@ prod_risk_map)[customer.risk_level[1]] ELSE DefaultCustomerRank

cust_risk_val(customer) ==
    IF customer.risk_level # NULL /\ customer.risk_level[1] \in DOMAIN risk_map
    THEN risk_map[customer.risk_level[1]] ELSE DefaultCustomerRank

prod_risk_val(product) ==
    IF product.risk_level # NULL /\ product.risk_level[1] \in DOMAIN prod_risk_map
    THEN prod_risk_map[product.risk_level[1]] ELSE DefaultProductRank

risk_match(customer, product) == prod_risk_val(product) <= cust_risk_val(customer)

\* customer['available_funds'] >= (product['min_purchase_amount'] or 0);
\* only evaluated when available_funds is a number
funds_match(customer, product) ==
    customer.available_funds[1] >= OrInt(product.min_purchase_amount, Some(0))[1]

\* variant: `or` in place of `and`
suitability_score_either(risk_ok, funds_ok) ==
    IF risk_ok \/ funds_ok THEN ScoreSuitable ELSE ScoreUnsuitable

suitability_score(risk_ok, funds_ok) ==
    IF risk_ok /\ funds_ok THEN ScoreSuitable ELSE ScoreUnsuitable

recommendation_status(risk_ok, funds_ok) ==
    IF risk_ok /\ funds_ok THEN "suitable" ELSE "not recommended"

Raise(exc) == [kind |-> "raise", exc |-> exc]
ErrorMapping(msg) == [kind |-> "error", error |-> msg, code |-> None]

\* lines 182-215: None >= number raises TypeError, otherwise the result mapping
Evaluate(customer, product) ==
    IF customer.available_funds = NULL THEN Raise("TypeError")
    ELSE [kind |-> "result",
          suitability_score |-> suitability_score(risk_match(customer, product),
                                                  funds_match(customer, product)),
          is_risk_compatible |-> risk_match(customer, product),
          is_funds_sufficient |-> funds_match(customer, product),
          customer_risk |-> customer.risk_level,
          product_risk |-> product.risk_level,
          available_funds |-> customer.available_funds,
          min_purchase |-> product.min_purchase_amount,
          recommendation_status |-> recommendation_status(risk_match(customer, product),
                                                          funds_match(customer, product))]

-----------------------------------------------------------------------------
(* The stored tables *)

CustomerLabels == DOMAIN risk_map
ProductLabels == DOMAIN prod_risk_map
\* every label a risk_level column may hold: both vocabularies, a foreign
\* word, and NULL
StoredLabels == {NULL} \cup {Some(l) : l \in CustomerLabels \cup ProductLabels \cup {"unknown"}}
Amounts == {NULL} \cup {Some(n) : n \in 0 .. MaxFunds}

Cycle(seq, k) == seq[((k - 1) % Len(seq)) + 1]

PersonaCycle ==
    <<Some("conservative"), Some("aggressive"), NULL, Some("low"),
      Some("balanced"), Some("unknown"), Some("stable"), Some("growth")>>

\* the k-th row of customer_info; customer_id is the unique key k
CustomerInfoRow(k) ==
    [customer_id |-> k,
     name |-> Some(Cycle(<<<<"a", "b">>, <<"b", "c">>>>, k)),
     id_card |-> Some(Cycle(<<"id-x-full", "id-y-full">>, k)),
     id_card_masked |-> Some(Cycle(<<"id-x-mask", "id-y-mask">>, k)),
     available_funds |-> IF k % (MaxFunds + 2) = 2 THEN NULL
                         ELSE Some((k - 1) % (MaxFunds + 1))]

\* every third customer has no persona row
CustomerPersonaRows(n) ==
    {[customer_id |-> k, risk_level |-> Cycle(PersonaCycle, k)] :
        k \in {j \in 1 .. n : j % 3 # 0}}

\* the k-th row of wealth_products; product_code is the unique key
ProductRow(k) ==
    [product_code |-> Some(Cycle(<<"P1", "P2", "P3", "P4">>, k)),
     product_name |-> Some(Cycle(<<<<"A", "B">>, <<"B", "C">>>>, k)),
     sales_type |-> Some(Cycle(<<"self-operated", "agency">>, k)),
     product_type |-> Some(Cycle(<<"wealth-management", "fund", "trust">>, k)),
     product_status |-> Some(Cycle(<<"on-sale", "continuing", "on-sale">>, k)),
     fund_raising |-> Some(Cycle(<<"public", "private">>, k)),
     risk_level |-> Cycle(<<Some("low"), Some("high"), NULL, Some("stable")>>, k),
     issuer |-> Some(Cycle(<<<<"X">>, <<"Y">>>>, k)),
     min_purchase_amount |-> Cycle(<<Some(1), NULL, Some(0), Some(2)>>, k)]

-----------------------------------------------------------------------------
(* Requests *)

Tools == {"search_customers", "search_wealth_products", "analyze_suitability"}

WrongKey == <<"k", "2">>
HeaderValues(name) ==
    IF name = "x-api-key" THEN {None, Some(<<>>), Some(API_KEY), Some(WrongKey)}
    ELSE {None, Some(BearerPrefix \o API_KEY), Some(BearerPrefix \o WrongKey),
          Some(API_KEY)}

\* the local channel has no headers to read; a header-bearing channel
\* delivers any combination of the two headers
LocalChannel == [available |-> FALSE, dict |-> [name \in {} |-> None]]
HttpChannels ==
    {[available |-> TRUE, dict |-> d] :
        d \in {f \in [{"x-api-key", "authorization"} ->
                        HeaderValues("x-api-key") \cup HeaderValues("authorization")] :
                    \A name \in DOMAIN f : f[name] \in HeaderValues(name)}}
Channels == {LocalChannel} \cup HttpChannels

QueryIds == -1 .. 2
QueryCodes == {Some("P1"), Some("P2"), Some("PX")}

SearchCustomersArgs ==
    [customer_id : {None} \cup {Some(n) : n \in QueryIds},
     name : {None, Some(<<"a">>)},
     id_card : {None, Some("id-x-mask")}]

DefaultProductArgs ==
    [product_name |-> None, product_code |-> None, sales_type |-> None,
     product_type |-> None, product_status |-> Some("on-sale"),
     fund_raising |-> None, risk_level |-> None, issuer |-> None,
     max_min_purchase |-> None, limit |-> DefaultLimit]

FilterCount(a) ==
    Cardinality({key \in DOMAIN a \ {"limit"} : a[key] # DefaultProductArgs[key]})

SearchProductsArgs ==
    {a \in [product_name : {None, Some(<<"B">>)},
            product_code : {None, Some("P1")},
            sales_type : {None, Some("self-operated")},
            product_type : {None, Some("fund")},
            product_status : {Some("on-sale"), Some("continuing"), Some("")},
            fund_raising : {None, Some("public")},
            risk_level : {None, Some("low")},
            issuer : {None, Some(<<"X">>)},
            max_min_purchase : {None, Some(0), Some(MaxFunds - 1)},
            limit : {-1, 0, 1, DefaultLimit}] :
        FilterCount(a) <= MaxFilters}

AnalyzeArgs == [customer_id : QueryIds, product_code : QueryCodes]

ArgsOf(t) ==
    IF t = "search_customers" THEN SearchCustomersArgs
    ELSE IF t = "search_wealth_products" THEN SearchProductsArgs
    ELSE AnalyzeArgs

NoHeaders == LocalChannel
NoArgs == [none |-> TRUE]
NoValue == [kind |-> "none"]

-----------------------------------------------------------------------------
(* Initial states *)

IdleRequest ==
    /\ pc = "idle"
    /\ tool = "none"
    /\ headers = NoHeaders
    /\ args = NoArgs
    /\ sc_args = NoArgs
    /\ caller = "none"
    /\ results = <<>>
    /\ pending = NoValue
    /\ ret = NoValue
    /\ opened = 0
    /\ queried = <<>>

\* tables of every size up to the bounds
Init ==
    /\ \E n \in 0 .. MaxCustomers :
          /\ customer_info = [k \in 1 .. n |-> CustomerInfoRow(k)]
          /\ customer_persona = CustomerPersonaRows(n)
    /\ \E m \in 0 .. MaxProducts : wealth_products = [k \in 1 .. m |-> ProductRow(k)]
    /\ conns = 0
    /\ IdleRequest

\* one customer and one product, with every combination of funds, minimum
\* purchase amount and risk labels (persona row present or absent)
InitEval ==
    /\ \E funds \in Amounts :
          customer_info = <<[CustomerInfoRow(1) EXCEPT !.available_funds = funds]>>
    /\ \E persona \in {{}} \cup {{[customer_id |-> 1, risk_level |-> l]} : l \in StoredLabels} :
          customer_persona = persona
    /\ \E l \in StoredLabels, amount \in Amounts :
          wealth_products = <<[ProductRow(1) EXCEPT !.risk_level = l,
                                                    !.min_purchase_amount = amount]>>
    /\ conns = 0
    /\ IdleRequest

-----------------------------------------------------------------------------
(* The request: wrapper, tool bodies, return *)

\* where the body of a tool starts
Entry(t) ==
    IF t = "search_customers" THEN "sc_connect"
    ELSE IF t = "search_wealth_products" THEN "sp_connect"
    ELSE "as_search"

\* A tool call arrives with headers h and arguments a and runs the wrapper:
\* either it returns the 401 mapping without calling the tool, or it calls it.
require_auth(t, h, a) ==
    /\ pc = "idle"
    /\ tool' = t
    /\ headers' = h
    /\ IF AuthCheck(h).kind = "pass"
       THEN /\ pc' = Entry(t)
            /\ args' = a
            /\ sc_args' = IF t = "search_customers" THEN a ELSE NoArgs
            /\ caller' = IF t = "search_customers" THEN "request" ELSE "none"
            /\ ret' = ret
       ELSE /\ pc' = "done"
            /\ ret' = AuthCheck(h)
            /\ UNCHANGED <<args, sc_args, caller>>
    /\ UNCHANGED <<store, results, pending, conns, opened, queried>>

\* get_db_connection(): sqlite3.connect either yields a connection or raises
\* before anything was opened (no try block is active yet)
get_db_connection(next_pc) ==
    \/ /\ conns' = conns + 1
       /\ opened' = opened + 1
       /\ pc' = next_pc
       /\ ret' = ret
    \/ /\ pc' = "done"
       /\ ret' = Raise("OperationalError")
       /\ UNCHANGED <<conns, opened>>

\* conn.close() in a finally block
close == conns' = conns - 1

(* search_customers, lines 62-95 *)

sc_connect ==
    /\ pc = "sc_connect"
    /\ get_db_connection("sc_execute")
    /\ UNCHANGED <<store, tool, headers, args, sc_args, caller, results, pending, queried>>

\* lines 64-93: build the query, execute it, build the list; or the engine raises
sc_execute ==
    /\ pc = "sc_execute"
    /\ queried' = Append(queried, "customer_info")
    /\ \/ pending' = [kind |-> "rows",
                      rows |-> CustomerRows(sc_args, customer_info, customer_persona)]
       \/ pending' = Raise("OperationalError")
    /\ pc' = "sc_finally"
    /\ UNCHANGED <<store, tool, headers, args, sc_args, caller, results, ret, conns, opened>>

\* variant: conn.close() as the last statement of the try block instead of a
\* finally block, so that a raising query skips it
sc_finally_close_in_try ==
    /\ pc = "sc_finally"
    /\ conns' = IF pending.kind = "raise" THEN conns ELSE conns - 1
    /\ pending' = NoValue
    /\ IF pending.kind = "rows" /\ caller = "analyze_suitability"
       THEN /\ results' = pending.rows
            /\ pc' = "as_results"
            /\ ret' = ret
       ELSE /\ ret' = pending
            /\ pc' = "done"
            /\ results' = results
    /\ sc_args' = NoArgs
    /\ caller' = "none"
    /\ UNCHANGED <<store, tool, headers, args, opened, queried>>

\* lines 94-95, then the return to the caller or the propagation of the exception
sc_finally ==
    /\ pc = "sc_finally"
    /\ close
    /\ pending' = NoValue
    /\ IF pending.kind = "rows" /\ caller = "analyze_suitability"
       THEN /\ results' = pending.rows
            /\ pc' = "as_results"
            /\ ret' = ret
       ELSE /\ ret' = pending
            /\ pc' = "done"
            /\ results' = results
    /\ sc_args' = NoArgs
    /\ caller' = "none"
    /\ UNCHANGED <<store, tool, headers, args, opened, queried>>

(* search_wealth_products, lines 123-160 *)

sp_connect ==
    /\ pc = "sp_connect"
    /\ get_db_connection("sp_execute")
    /\ UNCHANGED <<store, tool, headers, args, sc_args, caller, results, pending, queried>>

sp_execute ==
    /\ pc = "sp_execute"
    /\ queried' = Append(queried, "wealth_products")
    /\ \/ pending' = [kind |-> "rows", rows |-> ProductRows(args, wealth_products)]
       \/ pending' = Raise("OperationalError")
    /\ pc' = "sp_finally"
    /\ UNCHANGED <<store, tool, headers, args, sc_args, caller, results, ret, conns, opened>>

sp_finally ==
    /\ pc = "sp_finally"
    /\ close
    /\ ret' = pending
    /\ pending' = NoValue
    /\ pc' = "done"
    /\ UNCHANGED <<store, tool, headers, args, sc_args, caller, results, opened, queried>>

(* analyze_suitability, lines 168-217 *)

\* line 168: search_customers(customer_id=customer_id), which is the wrapped
\* tool, so the wrapper runs again on the same request headers; a 401 mapping
\* would be non-empty and results[0] on it raises KeyError
as_search ==
    /\ pc = "as_search"
    /\ IF AuthCheck(headers).kind = "pass"
       THEN /\ sc_args' = [customer_id |-> Some(args.customer_id),
                           name |-> None, id_card |-> None]
            /\ caller' = "analyze_suitability"
            /\ pc' = "sc_connect"
            /\ ret' = ret
       ELSE /\ ret' = Raise("KeyError")
            /\ pc' = "done"
            /\ UNCHANGED <<sc_args, caller>>
    /\ UNCHANGED <<store, tool, headers, args, results, pending, conns, opened, queried>>

\* variant: the `if not results` test placed after the product query, inside
\* the try block
as_connect_check_after_query ==
    /\ pc = "as_results"
    /\ IF results = <<>>
       THEN /\ conns' = conns + 1
            /\ opened' = opened + 1
            /\ queried' = Append(queried, "wealth_products")
            /\ pending' = ErrorMapping("Customer not found")
            /\ pc' = "as_finally"
            /\ ret' = ret
       ELSE /\ get_db_connection("as_fetch")
            /\ UNCHANGED <<pending, queried>>
    /\ UNCHANGED <<store, tool, headers, args, sc_args, caller, results>>

\* lines 169-174: no customer -> error mapping, else customer = results[0]
\* and the product connection is opened
as_connect ==
    /\ pc = "as_results"
    /\ IF results = <<>>
       THEN /\ ret' = ErrorMapping("Customer not found")
            /\ pc' = "done"
            /\ UNCHANGED <<conns, opened>>
       ELSE get_db_connection("as_fetch")
    /\ UNCHANGED <<store, tool, headers, args, sc_args, caller, results, pending, queried>>

\* lines 175-215: the product query, then NotFound or the evaluation of
\* customer = results[0] against the product
as_fetch ==
    /\ pc = "as_fetch"
    /\ queried' = Append(queried, "wealth_products")
    /\ \/ pending' = Raise("OperationalError")
       \/ pending' = IF FetchProduct(args.product_code, wealth_products) = None
                     THEN ErrorMapping("Product not found")
                     ELSE Evaluate(results[1],
                                   FetchProduct(args.product_code, wealth_products)[1])
    /\ pc' = "as_finally"
    /\ UNCHANGED <<store, tool, headers, args, sc_args, caller, results, ret, conns, opened>>

as_finally ==
    /\ pc = "as_finally"
    /\ close
    /\ ret' = pending
    /\ pending' = NoValue
    /\ pc' = "done"
    /\ UNCHANGED <<store, tool, headers, args, sc_args, caller, results, opened, queried>>

\* the response has been delivered; the server waits for the next call
Return ==
    /\ pc = "done"
    /\ pc' = "idle"
    /\ tool' = "none"
    /\ headers' = NoHeaders
    /\ args' = NoArgs
    /\ sc_args' = NoArgs
    /\ caller' = "none"
    /\ results' = <<>>
    /\ pending' = NoValue
    /\ ret' = NoValue
    /\ opened' = 0
    /\ queried' = <<>>
    /\ UNCHANGED <<store, conns>>

\* the server is idle and a client on one of the channels calls one of the tools
Call(tools, channels) ==
    /\ pc = "idle"
    /\ \E t \in tools : \E h \in channels : \E a \in ArgsOf(t) : require_auth(t, h, a)

Next ==
    \/ Call(Tools, Channels)
    \/ sc_connect \/ sc_execute \/ sc_finally
    \/ sp_connect \/ sp_execute \/ sp_finally
    \/ as_search \/ as_connect \/ as_fetch \/ as_finally
    \/ Return

Spec == Init /\ [][Next]_vars

\* the evaluator alone, called on the local channel
NextEval ==
    \/ Call({"analyze_suitability"}, {LocalChannel})
    \/ sc_connect \/ sc_execute \/ sc_finally
    \/ as_search \/ as_connect \/ as_fetch \/ as_finally
    \/ Return

SpecEval == InitEval /\ [][NextEval]_vars

TypeOK ==
    /\ pc \in {"idle", "sc_connect", "sc_execute", "sc_finally", "sp_connect",
               "sp_execute", "sp_finally", "as_search", "as_results", "as_fetch",
               "as_finally", "done"}
    /\ tool \in Tools \cup {"none"}
    /\ conns \in 0 .. 2

-----------------------------------------------------------------------------
(* Vocabulary of the properties, stated from the glossary and the contracts *)

CustomerVocabulary == <<"conservative", "stable", "balanced", "growth", "aggressive">>
ProductVocabulary == <<"low", "slightly-low", "medium", "slightly-high", "high">>

InVocabulary(label, vocabulary) ==
    label # NULL /\ \E r \in 1 .. Len(vocabulary) : vocabulary[r] = label[1]
RankIn(label, vocabulary, missing) ==
    IF InVocabulary(label, vocabulary)
    THEN CHOOSE r \in 1 .. Len(vocabulary) : vocabulary[r] = label[1]
    ELSE missing

Finished(t) == pc = "done" /\ tool = t
Admitted == AuthCheck(headers).kind = "pass"
StoredCustomerIds == {customer_info[k].customer_id : k \in 1 .. Len(customer_info)}
StoredProductCodes == {wealth_products[k].product_code : k \in 1 .. Len(wealth_products)}
RowsOf(response) == {response.rows[k] : k \in 1 .. Len(response.rows)}

\* the customer and the product an evaluation was computed from
EvaluatedCustomer == results[1]
EvaluatedProduct == FetchProduct(args.product_code, wealth_products)[1]
Evaluated == Finished("analyze_suitability") /\ ret.kind = "result"

-----------------------------------------------------------------------------
(* Properties *)

\* C1: every result of analyze_suitability has is_risk_compatible =
\* (product rank <= customer rank) and is_funds_sufficient = (available_funds
\* >= min_purchase_amount, NULL counted as 0); the score is 0.95 with label
\* "suitable" exactly when both hold, and 0.4 with "not recommended" otherwise.
C1_ScoreIsBinaryConjunction ==
    Evaluated =>
        LET risk_ok == RankIn(EvaluatedProduct.risk_level, ProductVocabulary, 99)
                         <= RankIn(EvaluatedCustomer.risk_level, CustomerVocabulary, 0)
            threshold == IF EvaluatedProduct.min_purchase_amount = NULL THEN 0
                         ELSE EvaluatedProduct.min_purchase_amount[1]
            funds_ok == EvaluatedCustomer.available_funds[1] >= threshold
        IN  /\ ret.is_risk_compatible = risk_ok
            /\ ret.is_funds_sufficient = funds_ok
            /\ (risk_ok /\ funds_ok) =>
                  ret.suitability_score = 95 /\ ret.recommendation_status = "suitable"
            /\ ~(risk_ok /\ funds_ok) =>
                  ret.suitability_score = 40 /\ ret.recommendation_status = "not recommended"

\* an evaluation that is suitable although the product has no minimum amount
C1_Witness ==
    /\ Evaluated
    /\ ret.suitability_score = 95
    /\ ret.min_purchase = NULL
    /\ ret.available_funds = Some(0)

\* C2: a customer whose risk_level is missing or outside the customer
\* vocabulary is risk-compatible with no product, and a product whose
\* risk_level is missing or outside the product vocabulary is risk-compatible
\* with no customer.
C2_ForeignLabelNeverMatches ==
    Evaluated =>
        /\ ~InVocabulary(ret.customer_risk, CustomerVocabulary) => ~ret.is_risk_compatible
        /\ ~InVocabulary(ret.product_risk, ProductVocabulary) => ~ret.is_risk_compatible

\* a product-vocabulary label stored on the customer, evaluated against the
\* lowest-risk product
C2_Witness ==
    /\ Evaluated
    /\ ret.customer_risk = Some("high")
    /\ ret.product_risk = Some("low")
    /\ ~ret.is_risk_compatible

\* C3: analyze_suitability answers "Customer not found" for every customer_id
\* that is not stored, and "Product not found" for a stored customer and a
\* product_code that is not stored (calls in which the store itself failed
\* are left aside).
C3_NotFoundForEveryMissingId ==
    (Finished("analyze_suitability") /\ Admitted /\ ret.kind # "raise") =>
        /\ args.customer_id \notin StoredCustomerIds =>
              ret = ErrorMapping("Customer not found")
        /\ (args.customer_id \in StoredCustomerIds
                /\ args.product_code \notin StoredProductCodes) =>
              ret = ErrorMapping("Product not found")

\* C4: search_customers with only customer_id supplied returns at most one
\* record, and that record has the supplied customer_id.
C4_IdSearchIsExact ==
    (Finished("search_customers") /\ Admitted /\ ret.kind = "rows"
        /\ args.customer_id # None /\ args.name = None /\ args.id_card = None) =>
        /\ Len(ret.rows) <= 1
        /\ \A row \in RowsOf(ret) : row.customer_id = args.customer_id[1]

\* C5: search_customers without filters returns at most 10 records, and
\* search_wealth_products returns at most `limit` records (none for a limit
\* of 0 or below).
C5_CountWithinLimit ==
    /\ (Finished("search_customers") /\ Admitted /\ ret.kind = "rows"
            /\ args.customer_id = None /\ args.name = None /\ args.id_card = None) =>
          Len(ret.rows) <= 10
    /\ (Finished("search_wealth_products") /\ Admitted /\ ret.kind = "rows") =>
          Len(ret.rows) <= (IF args.limit < 0 THEN 0 ELSE args.limit)

\* C6: every record returned by search_wealth_products equals the call's
\* value in each exact-match field for which a (non-empty) value is in
\* effect, product_status included with its default, and has a
\* min_purchase_amount <= max_min_purchase when that ceiling is supplied,
\* 0 included.
C6_RecordsSatisfyFilters ==
    (Finished("search_wealth_products") /\ Admitted /\ ret.kind = "rows") =>
        \A row \in RowsOf(ret) :
            /\ \A key \in {"sales_type", "product_type", "product_status",
                           "fund_raising", "risk_level", "product_code"} :
                  (args[key] # None /\ args[key] # Some("")) => row[key] = args[key]
            /\ args.max_min_purchase # None =>
                  /\ row.min_purchase_amount # NULL
                  /\ row.min_purchase_amount[1] <= args.max_min_purchase[1]

\* a search with the ceiling 0 and the default status that returned a record
C6_Witness ==
    /\ Finished("search_wealth_products")
    /\ ret.kind = "rows"
    /\ args.max_min_purchase = Some(0)
    /\ args.product_status = Some("on-sale")
    /\ Len(ret.rows) >= 1
    /\ Len(wealth_products) > Len(ret.rows)

\* C7: on a header-bearing channel the call reaches the tool if and only if
\* X-API-Key equals the secret or Authorization is "Bearer " followed by the
\* secret; every other call ends with the 401 mapping, no connection opened
\* and no query executed.
C7_AdmittedIffEitherCredential ==
    (headers.available /\ pc # "idle") =>
        LET presented ==
                \/ headers.dict["x-api-key"] = Some(API_KEY)
                \/ headers.dict["authorization"] = Some(BearerPrefix \o API_KEY)
            rejected == pc = "done" /\ ret.kind = "error" /\ ret.code = Some(401)
        IN  /\ rejected <=> ~presented
            /\ rejected => (opened = 0 /\ queried = <<>> /\ conns = 0)

\* C8: when the customer lookup returns no row, analyze_suitability ends with
\* "Customer not found" having executed only the customer query and opened
\* only the customer search's connection.
C8_NoProductLookupWithoutCustomer ==
    (Finished("analyze_suitability") /\ ret = ErrorMapping("Customer not found")) =>
        /\ queried = <<"customer_info">>
        /\ opened = 1
        /\ conns = 0

\* the evaluator asked about a customer_id that is not stored
C8_Witness ==
    /\ Finished("analyze_suitability")
    /\ ret = ErrorMapping("Customer not found")
    /\ args.customer_id \notin StoredCustomerIds
    /\ Len(customer_info) > 0
    /\ Len(wealth_products) > 0

\* C9: at most one connection is open at any time, and none is open once a
\* call has returned or failed, whatever the exit path.
C9_ConnectionsReleased ==
    /\ conns <= 1
    /\ pc \in {"idle", "done"} => conns = 0
    /\ pc \in {"sc_execute", "sc_finally", "sp_execute", "sp_finally",
               "as_fetch", "as_finally"} => conns = 1
    /\ pc \in {"as_results"} => conns = 0

\* an evaluation whose score computation raised inside the second
\* connection's try block
C9_Witness ==
    /\ Finished("analyze_suitability")
    /\ ret = Raise("TypeError")
    /\ opened = 2
    /\ conns = 0

\* C10: a stored product passes the max_min_purchase = F condition of
\* search_wealth_products exactly when analyze_suitability reports
\* is_funds_sufficient for a customer with available_funds F.
C10_SearchAgreesWithEvaluator ==
    (Evaluated /\ args.customer_id \in StoredCustomerIds) =>
        (ProductWhere([DefaultProductArgs EXCEPT
                          !.product_status = None,
                          !.max_min_purchase = EvaluatedCustomer.available_funds],
                      EvaluatedProduct)
            <=> ret.is_funds_sufficient)

====
